---- MODULE Spec2Model ----
(***************************************************************************)
(* Model of the timetabling engine (src/timetabling.py, run_scheduler and  *)
(* its helpers) and of the request handlers around it (src/app.py:         *)
(* schedule, download and the in-memory result store).                     *)
(*                                                                         *)
(* Encodings.  A time of day is its number of minutes since 00:00.  A day  *)
(* label is a natural number whose order is the lexicographic order of the *)
(* label strings (pandas' groupby sorts the labels).  A slot identifier    *)
(* "TS%03d" is the number it prints.  An absent value (None) is the empty  *)
(* sequence and a present value v the one-element sequence <<v>>.  The     *)
(* chain score, a float bonus - 0.001 * minutes, is kept in thousandths.   *)
(*                                                                         *)
(* chains.sort_values uses pandas' default kind, quicksort, which does not  *)
(* promise to keep equal scores in order; the sort is still a function of  *)
(* its input, so what it does with ties is a property of the build, chosen *)
(* with the input (tie_order) and the same for every run.  The DAYS lists   *)
(* considered hold distinct labels.                                        *)
(*                                                                         *)
(* time.time() is a clock in whole seconds.  The token of a request,       *)
(* secrets.token_hex(8), is the number of the request: tokens of different *)
(* requests differ.  The bytes of the workbook a run writes are the rows   *)
(* of its schedule sheet.                                                  *)
(***************************************************************************)
EXTENDS Integers, Sequences, FiniteSets, TLC

\* ------------------------------------------------------------------ bounds

\* Largest sessions_per_week of the first course of a scenario.
MaxSessionsPerWeek == 2
\* Largest number of students enrolled in the first course of a scenario.
MaxEnrolled == 2
\* Seconds the clock advances in one step, and the number of such steps.
TickSeconds == 21600
MaxTicks == 3

\* ------------------------------------------------------- program constants

MinutesPerDay == 1440
PrefDayBonus == 2
PrefWindowBonus == 1
ScoreScale == 1000
PreviewRows == 20
\* soft_score is the number of placed sessions times 0.1: kept in tenths.
SoftScoreTenths == 1
\* 12 * 3600, the age in seconds past which _gc_store drops an entry.
ExpirySeconds == 43200

\* ------------------------------------------------------------------- state

VARIABLES
    settings,       \* DAYS, START_DAY, END_DAY, BLOCK_MIN of the settings sheet
    courses,        \* the courses sheet, in row order
    instructors,    \* the instructors sheet
    availability,   \* the availability sheet
    rooms,          \* the rooms sheet, in row order
    enrollments,    \* the enrollments sheet
    tie_order,      \* how this build's default (quicksort) argsort leaves ties
    pc,             \* per run: where the run is
    timeslots,      \* per run: the slot catalog
    sessions,       \* per run: the expanded sessions
    pos,            \* per run: number of sessions the loop has processed
    assigned,       \* per run: the Assignment list
    room_busy,      \* per run: (room id, day) -> booked intervals
    instr_busy,     \* per run: (instructor id, day) -> booked intervals
    student_busy,   \* per run: (student id, day) -> booked intervals
    chains_cache,   \* per run: duration -> chains
    response,       \* per run: what the request handler answers
    SCHEDULE_STORE, \* token -> (bytes, created_at), shared by all requests
    clock,          \* time.time()
    stored_at,      \* per request: the created_at of its entry, once stored
    downloaded      \* the answer to the latest download request

inputs == <<settings, courses, instructors, availability, rooms, enrollments, tie_order>>
vars == <<settings, courses, instructors, availability, rooms, enrollments, tie_order,
          pc, timeslots, sessions, pos, assigned, room_busy, instr_busy,
          student_busy, chains_cache, response,
          SCHEDULE_STORE, clock, stored_at, downloaded>>

Runs == {1, 2}

None == <<>>
Some(v) == <<v>>

Range(s) == {s[i] : i \in DOMAIN s}

\* ------------------------------------------------------- utility functions

minutes_between(a, b) == (b - a) % MinutesPerDay

\* A slip: <= for <, so intervals that only touch count as overlapping.
overlap_inclusive(a_start, a_end, b_start, b_end) ==
    LET mx == IF a_start >= b_start THEN a_start ELSE b_start
        mn == IF a_end <= b_end THEN a_end ELSE b_end
    IN mx <= mn

overlap(a_start, a_end, b_start, b_end) ==
    LET mx == IF a_start >= b_start THEN a_start ELSE b_start
        mn == IF a_end <= b_end THEN a_end ELSE b_end
    IN mx < mn

\* (datetime.combine(datetime.min, current) + timedelta(minutes=block_min)).time()
next_time(current, block_min) == (current + block_min) % MinutesPerDay

\* A slip: int(a / b) + 1 for math.ceil(a / b), one block too many when b
\* divides a.
CeilDiv_floor_plus_one(a, b) == (a \div b) + 1

\* math.ceil(a / b) for b > 0
CeilDiv(a, b) == -((-a) \div b)

\* ------------------------------------------------------- build_timeslots

\* A slip: > for >=, so a block that ends exactly at the day's end is lost.
RECURSIVE SlotBlocks_strict(_, _, _)
SlotBlocks_strict(current, end, block_min) ==
    IF minutes_between(current, end) > block_min
    THEN LET next_t == next_time(current, block_min)
         IN <<[start |-> current, end |-> next_t]>>
            \o SlotBlocks_strict(next_t, end, block_min)
    ELSE <<>>

\* The while loop of build_timeslots, for block_min > 0 (it ends).
RECURSIVE SlotBlocks(_, _, _)
SlotBlocks(current, end, block_min) ==
    IF minutes_between(current, end) >= block_min
    THEN LET next_t == next_time(current, block_min)
         IN <<[start |-> current, end |-> next_t]>> \o SlotBlocks(next_t, end, block_min)
    ELSE <<>>

\* The loops over the days and over the blocks (lines 71-76), from day di and
\* block si on, slot_id being the next identifier.
RECURSIVE AllSlots(_, _, _, _, _, _)
AllSlots(days, slots, block_min, di, si, slot_id) ==
    IF di > Len(days) THEN <<>>
    ELSE IF si > Len(slots) THEN AllSlots(days, slots, block_min, di + 1, 1, slot_id)
    ELSE <<[slot_id |-> slot_id,
            day |-> days[di],
            start |-> slots[si].start,
            end |-> slots[si].end,
            duration_min |-> block_min]>>
         \o AllSlots(days, slots, block_min, di, si + 1, slot_id + 1)

build_timeslots(days, start, end, block_min) ==
    AllSlots(days, SlotBlocks(start, end, block_min), block_min, 1, 1, 1)

\* How build_timeslots ends for a block length: it returns for a positive
\* one; with 0 the loop condition never fails; with a negative one the loop
\* walks back past datetime.min and datetime raises OverflowError.
TimeslotsOutcome(block_min) ==
    IF block_min > 0 THEN "returns"
    ELSE IF block_min = 0 THEN "diverges"
    ELSE "raises"

\* ------------------------------------------------- expand_course_sessions

\* A slip: the range starts at 1, so a course loses its first session.
RECURSIVE CourseRecords_from_one(_, _)
CourseRecords_from_one(row, k) ==
    IF k + 1 >= row.sessions_per_week THEN <<>>
    ELSE <<[course_id |-> row.course_id,
            session_index |-> k + 2,
            duration_min |-> row.session_duration_min,
            instructor_id |-> row.instructor_id]>> \o CourseRecords_from_one(row, k + 1)

RECURSIVE CourseRecords(_, _)
CourseRecords(row, k) ==
    IF k >= row.sessions_per_week THEN <<>>
    ELSE <<[course_id |-> row.course_id,
            session_index |-> k + 1,
            duration_min |-> row.session_duration_min,
            instructor_id |-> row.instructor_id]>> \o CourseRecords(row, k + 1)

RECURSIVE ExpandFrom(_, _)
ExpandFrom(courses_df, i) ==
    IF i > Len(courses_df) THEN <<>>
    ELSE CourseRecords(courses_df[i], 0) \o ExpandFrom(courses_df, i + 1)

expand_course_sessions(courses_df) == ExpandFrom(courses_df, 1)

\* ------------------------------------------------ slots_matching_duration

\* The keys of timeslots_df.groupby("day"), in the order groupby yields them:
\* sorted by label, whatever the order of DAYS.
GroupKeys(timeslots_df) ==
    LET S == {timeslots_df[i].day : i \in DOMAIN timeslots_df}
    IN [p \in 1..Cardinality(S) |->
          CHOOSE d \in S : Cardinality({e \in S : e < d}) = p - 1]

\* grp.sort_values("start").to_dict("records") of one day's group (the
\* start times of one day's slots are distinct).
DayRecords(timeslots_df, day) ==
    LET grp == SelectSeq(timeslots_df, LAMBDA row : row.day = day)
        S == Range(grp)
    IN [p \in 1..Len(grp) |->
          CHOOSE x \in S : Cardinality({y \in S : y.start < x.start}) = p - 1]

\* A slip: the window moves on by a whole chain, so the chains of a day
\* partition it instead of overlapping.
RECURSIVE DayChains_partition(_, _, _, _, _)
DayChains_partition(records, day, blocks_needed, block, i) ==
    IF i > Len(records) - blocks_needed + 1 THEN <<>>
    ELSE LET ok == \A j \in 0..(blocks_needed - 2) :
                       records[i + j].end = records[i + j + 1].start
             chain == [day |-> day,
                       slot_ids |-> [x \in 1..blocks_needed |-> records[i + x - 1].slot_id],
                       start |-> records[i].start,
                       end |-> records[i + blocks_needed - 1].end,
                       duration_min |-> blocks_needed * block]
         IN (IF ok THEN <<chain>> ELSE <<>>)
            \o DayChains_partition(records, day, blocks_needed, block, i + blocks_needed)

\* The inner loop over i (1-based here), for blocks_needed >= 1.
RECURSIVE DayChains(_, _, _, _, _)
DayChains(records, day, blocks_needed, block, i) ==
    IF i > Len(records) - blocks_needed + 1 THEN <<>>
    ELSE LET ok == \A j \in 0..(blocks_needed - 2) :
                       records[i + j].end = records[i + j + 1].start
             chain == [day |-> day,
                       slot_ids |-> [x \in 1..blocks_needed |-> records[i + x - 1].slot_id],
                       start |-> records[i].start,
                       end |-> records[i + blocks_needed - 1].end,
                       duration_min |-> blocks_needed * block]
         IN (IF ok THEN <<chain>> ELSE <<>>)
            \o DayChains(records, day, blocks_needed, block, i + 1)

RECURSIVE ChainsFromDay(_, _, _, _, _)
ChainsFromDay(timeslots_df, keys, blocks_needed, block, g) ==
    IF g > Len(keys) THEN <<>>
    ELSE DayChains(DayRecords(timeslots_df, keys[g]), keys[g], blocks_needed, block, 1)
         \o ChainsFromDay(timeslots_df, keys, blocks_needed, block, g + 1)

BlocksNeeded(timeslots_df, duration_min) ==
    CeilDiv(duration_min, timeslots_df[1].duration_min)

\* For a non-empty catalog and blocks_needed >= 1 (see ChainsRaises).
slots_matching_duration(timeslots_df, duration_min) ==
    ChainsFromDay(timeslots_df, GroupKeys(timeslots_df),
                  BlocksNeeded(timeslots_df, duration_min),
                  timeslots_df[1].duration_min, 1)

\* The message of the exception slots_matching_duration raises, or None:
\* .iloc[0] of an empty catalog; with blocks_needed <= 0 the loop runs to
\* i = len(records), where records[i] is out of range.
ChainsRaises(timeslots_df, duration_min) ==
    IF Len(timeslots_df) = 0
    THEN Some(<<"single positional indexer is out-of-bounds">>)
    ELSE IF BlocksNeeded(timeslots_df, duration_min) <= 0
    THEN Some(<<"list index out of range">>)
    ELSE None

\* ------------------------------------------------------ constraint checks

\* A slip: only the start of the interval is tested against the window.
instructor_available_start_only(instr_id, day, start, end) ==
    \E k \in DOMAIN availability :
        /\ availability[k].instructor_id = instr_id
        /\ availability[k].day = day
        /\ availability[k].available_start <= start
        /\ availability[k].available_end > start

instructor_available(instr_id, day, start, end) ==
    \E k \in DOMAIN availability :
        /\ availability[k].instructor_id = instr_id
        /\ availability[k].day = day
        /\ availability[k].available_start <= start
        /\ availability[k].available_end >= end

\* A slip: the subset test the wrong way round.
room_ok_swapped(room_row, required) == room_row.equipment \subseteq required

room_ok(room_row, required) == required \subseteq room_row.equipment

\* A slip: only the latest booking of the calendar is tested.
free_in_latest_only(intervals, s, e) ==
    \/ Len(intervals) = 0
    \/ ~overlap(s, e, intervals[Len(intervals)][1], intervals[Len(intervals)][2])

free_in(intervals, s, e) ==
    ~ \E k \in DOMAIN intervals : overlap(s, e, intervals[k][1], intervals[k][2])

\* enrollments.groupby("course_id")["student_id"].apply(list).get(cid, [])
course_students(cid) ==
    LET rows == SelectSeq(enrollments, LAMBDA row : row.course_id = cid)
    IN [k \in 1..Len(rows) |-> rows[k].student_id]

\* ---------------------------------------------------------------- scoring

\* The score of a chain, in thousandths.
score(ch, pref_days, ps, pe) ==
    (IF ch.day \in pref_days THEN PrefDayBonus * ScoreScale ELSE 0)
    + (IF ch.start >= ps /\ ch.end <= pe THEN PrefWindowBonus * ScoreScale ELSE 0)
    - (minutes_between(settings.start, ch.start) + minutes_between(ch.end, settings.end))

\* chains.sort_values("__score", ascending=False): the default kind is
\* quicksort, which is not a stable sort; what it does with equal scores is
\* a property of the build (tie_order).
\* A slip: ascending=False left out.
sort_values_ascending(chains, scores) ==
    LET n == Len(chains)
        Before(i, j) == \/ scores[i] < scores[j]
                        \/ /\ scores[i] = scores[j]
                           /\ IF tie_order = "generation" THEN i < j ELSE i > j
    IN [p \in 1..n |->
          chains[CHOOSE i \in 1..n : Cardinality({j \in 1..n : Before(j, i)}) = p - 1]]

sort_values(chains, scores) ==
    LET n == Len(chains)
        Before(i, j) == \/ scores[i] > scores[j]
                        \/ /\ scores[i] = scores[j]
                           /\ IF tie_order = "generation" THEN i < j ELSE i > j
    IN [p \in 1..n |->
          chains[CHOOSE i \in 1..n : Cardinality({j \in 1..n : Before(j, i)}) = p - 1]]

InstructorRows(instr) == SelectSeq(instructors, LAMBDA row : row.instructor_id = instr)

\* score(ch) for the instructor of the session: an absent preferred_start
\* or preferred_end is START_DAY or END_DAY (line 207).
ChainScore(ch, instr_row) ==
    score(ch, instr_row.preferred_days,
          IF instr_row.preferred_start = None THEN settings.start
          ELSE instr_row.preferred_start[1],
          IF instr_row.preferred_end = None THEN settings.end
          ELSE instr_row.preferred_end[1])

\* The chains of a session in the order the loop tries them.
RankedChains(chains, instr_row) ==
    sort_values(chains, [i \in 1..Len(chains) |-> ChainScore(chains[i], instr_row)])

\* ------------------------------------------------------------ greedy loop

\* A defaultdict(list) read.
Busy(cal, key) == IF key \in DOMAIN cal THEN cal[key] ELSE <<>>

\* A slip: the entry is assigned a new list instead of being appended to.
Book_overwrite(cal, key, s, e) == (key :> <<<<s, e>>>>) @@ cal

Book(cal, key, s, e) == (key :> Append(Busy(cal, key), <<s, e>>)) @@ cal

\* for sid in course_students.get(cid, []): student_busy[(sid, day)].append(...)
RECURSIVE BookStudents(_, _, _, _, _, _)
BookStudents(cal, sids, day, s, e, k) ==
    IF k > Len(sids) THEN cal
    ELSE BookStudents(Book(cal, <<sids[k], day>>, s, e), sids, day, s, e, k + 1)

\* A slip: room_busy is a module-level dict, so every run books the rooms
\* in the calendar of the first.
BookRoom_module_level(r, room, ch) ==
    [room_busy EXCEPT ![1] = Book(@, <<room.room_id, ch.day>>, ch.start, ch.end)]

\* room_busy[(room.room_id, ch.day)].append((ch.start, ch.end)) in run r
BookRoom(r, room, ch) ==
    [room_busy EXCEPT ![r] = Book(@, <<room.room_id, ch.day>>, ch.start, ch.end)]

\* A slip: the calendars live outside the run (module level), so every run
\* reads and books the calendars of the first.
AllFree_shared_calendars(r, cid, instr, room, ch) ==
    /\ free_in(Busy(room_busy[1], <<room.room_id, ch.day>>), ch.start, ch.end)
    /\ free_in(Busy(instr_busy[1], <<instr, ch.day>>), ch.start, ch.end)
    /\ \A k \in DOMAIN course_students(cid) :
           free_in(Busy(student_busy[1], <<course_students(cid)[k], ch.day>>),
                   ch.start, ch.end)

\* The conflict test of lines 232-235 for one room and chain.
AllFree(r, cid, instr, room, ch) ==
    /\ free_in(Busy(room_busy[r], <<room.room_id, ch.day>>), ch.start, ch.end)
    /\ free_in(Busy(instr_busy[r], <<instr, ch.day>>), ch.start, ch.end)
    /\ \A k \in DOMAIN course_students(cid) :
           free_in(Busy(student_busy[r], <<course_students(cid)[k], ch.day>>),
                   ch.start, ch.end)

\* The loop over the rooms for one chain, from row j on: the row of the room
\* committed, or 0 when the loop ends without a commit.
RECURSIVE TryRooms(_, _, _, _, _, _)
TryRooms(r, cid, instr, req, ch, j) ==
    IF j > Len(rooms) THEN 0
    ELSE IF ~room_ok(rooms[j], req) THEN TryRooms(r, cid, instr, req, ch, j + 1)
    ELSE IF rooms[j].capacity < Len(course_students(cid))
         THEN TryRooms(r, cid, instr, req, ch, j + 1)
    ELSE IF ~AllFree(r, cid, instr, rooms[j], ch)
         THEN TryRooms(r, cid, instr, req, ch, j + 1)
    ELSE j

\* The loop over the ranked chains, from chain i on: <<chain, room row>> of
\* the commit, or <<0, 0>> when no combination succeeds.
RECURSIVE TryChains(_, _, _, _, _, _)
TryChains(r, cid, instr, req, chains, i) ==
    IF i > Len(chains) THEN <<0, 0>>
    ELSE IF ~instructor_available(instr, chains[i].day, chains[i].start, chains[i].end)
         THEN TryChains(r, cid, instr, req, chains, i + 1)
    ELSE LET j == TryRooms(r, cid, instr, req, chains[i], 1)
         IN IF j # 0 THEN <<i, j>>
            ELSE TryChains(r, cid, instr, req, chains, i + 1)

PlacedAssignment(sess, room, ch) ==
    [course_id |-> sess.course_id,
     session_index |-> sess.session_index,
     instructor_id |-> sess.instructor_id,
     room_id |-> Some(room.room_id),
     building |-> Some(room.building),
     day |-> Some(ch.day),
     start |-> Some(ch.start),
     end |-> Some(ch.end),
     slot_ids |-> ch.slot_ids]

UnplacedAssignment(sess) ==
    [course_id |-> sess.course_id,
     session_index |-> sess.session_index,
     instructor_id |-> sess.instructor_id,
     room_id |-> None,
     building |-> None,
     day |-> None,
     start |-> None,
     end |-> None,
     slot_ids |-> <<>>]

\* chains_for(dur), once slots_matching_duration is known not to raise.
chains_for(r, dur) ==
    IF dur \in DOMAIN chains_cache[r] THEN chains_cache[r][dur]
    ELSE slots_matching_duration(timeslots[r], dur)

\* The message of the exception one iteration of the session loop raises,
\* or None: chains_for (line 202) comes before the instructor lookup
\* (line 205), whose .iloc[0] fails on an instructor id with no row.
SessionRaises(r, sess) ==
    IF /\ sess.duration_min \notin DOMAIN chains_cache[r]
       /\ ChainsRaises(timeslots[r], sess.duration_min) # None
    THEN ChainsRaises(timeslots[r], sess.duration_min)
    ELSE IF Len(InstructorRows(sess.instructor_id)) = 0
    THEN Some(<<"single positional indexer is out-of-bounds">>)
    ELSE None

\* The chains of a session, ranked.
SessionChains(r, sess) ==
    RankedChains(chains_for(r, sess.duration_min), InstructorRows(sess.instructor_id)[1])

RequiredEquipment(cid) ==
    SelectSeq(courses, LAMBDA row : row.course_id = cid)[1].equipment_required

\* ---------------------------------------------------------- result summary

IsPlaced(a) == a.day # None

\* time_to_str: "HH:MM" as <<hour, minute>>
time_to_str(x) == <<x \div 60, x % 60>>

\* stringify_times: a time becomes its string, anything else "" (here <<>>).
stringify_times(a) ==
    [a EXCEPT !.start = IF @ = None THEN <<>> ELSE time_to_str(@[1]),
              !.end = IF @ = None THEN <<>> ELSE time_to_str(@[1])]

\* A slip: dropna left out, so the soft score counts every row.
Summary_all_rows(rows) ==
    [schedule |-> [k \in 1..Len(rows) |-> stringify_times(rows[k])],
     soft_score_tenths |-> Len(rows) * SoftScoreTenths,
     preview |-> [k \in 1..(IF Len(rows) < PreviewRows THEN Len(rows) ELSE PreviewRows) |->
                     stringify_times(rows[k])],
     counts |-> [sessions |-> Len(rows), hard_errors |-> 0, soft_details |-> 0]]

Summary(rows) ==
    [schedule |-> [k \in 1..Len(rows) |-> stringify_times(rows[k])],
     soft_score_tenths |-> Len(SelectSeq(rows, IsPlaced)) * SoftScoreTenths,
     preview |-> [k \in 1..(IF Len(rows) < PreviewRows THEN Len(rows) ELSE PreviewRows) |->
                     stringify_times(rows[k])],
     counts |-> [sessions |-> Len(rows), hard_errors |-> 0, soft_details |-> 0]]

\* schedule.dropna(subset=["day"]) of a frame built from an empty list: the
\* frame has no columns and pandas raises KeyError(['day']).
SummaryRaises(rows) ==
    IF Len(rows) = 0 THEN Some(<<"['day']">>) ELSE None

\* ------------------------------------------------------- request handler

NoResponse == [status |-> 0, error |-> None, result |-> None]

\* except Exception as e: return _json_error(str(e), 400)
ErrorResponse(msg) == [status |-> 400, error |-> Some(msg), result |-> None]

OkResponse(res) == [status |-> 200, error |-> None, result |-> Some(res)]

\* ------------------------------------------------------------ result store

\* secrets.token_hex(8) of request r.
Token(r) == r

\* _gc_store: the store without the entries created before the cutoff.
gc_store(store, now) ==
    LET cutoff == now - ExpirySeconds
        expired == {k \in DOMAIN store : store[k].ts < cutoff}
    IN [k \in DOMAIN store \ expired |-> store[k]]

\* SCHEDULE_STORE[token] = (bytes(output_bytes), time.time())
put_store(store, token, output_bytes, now) ==
    (token :> [bytes |-> output_bytes, ts |-> now]) @@ store

\* The answer of download(token): 404 when SCHEDULE_STORE.get(token) is
\* None, the stored bytes otherwise.  created_at is not looked at.
download(store, token) ==
    IF token \notin DOMAIN store
    THEN [status |-> 404, error |-> Some(<<"Invalid or expired token">>), body |-> None]
    ELSE [status |-> 200, error |-> None, body |-> Some(store[token].bytes)]

\* ----------------------------------------------------------------- inputs

FullDay(instr, d) ==
    [instructor_id |-> instr, day |-> d, available_start |-> 0, available_end |-> 1439]

Window(instr, d, s, e) ==
    [instructor_id |-> instr, day |-> d, available_start |-> s, available_end |-> e]

Course(cid, instr, spw, dur, equip) ==
    [course_id |-> cid, instructor_id |-> instr, sessions_per_week |-> spw,
     session_duration_min |-> dur, equipment_required |-> equip]

Instructor(instr, days, ps, pe) ==
    [instructor_id |-> instr, preferred_days |-> days, preferred_start |-> ps,
     preferred_end |-> pe]

Room(rid, b, cap, equip) ==
    [room_id |-> rid, building |-> b, capacity |-> cap, equipment |-> equip]

Enrolled(cid, n) == [k \in 1..n |-> [course_id |-> cid, student_id |-> k]]

\* Scenarios: a two-day week of two 90-minute blocks a day; course C1 and,
\* in most, a second course C2 that shares student 1 with it, competing for
\* two rooms and, when C2 is taught by I1, for the instructor.  "I3" has no
\* row in the instructors sheet.
ScenarioInputs ==
    { [settings |-> [days |-> days, start |-> 480, end |-> 660, block |-> 90],
       courses |-> <<Course("C1", "I1", spw, dur, equip)>>
                   \o (IF other = None THEN <<>>
                       ELSE <<Course("C2", other[1], 1, 90, {})>>),
       instructors |-> <<Instructor("I1", pref[1], pref[2], pref[3]),
                         Instructor("I2", {}, None, None)>>,
       availability |-> avail \o <<FullDay("I2", 1), FullDay("I2", 2)>>,
       rooms |-> <<Room("R1", "A", 1, {}), Room("R2", "B", 2, r2equip)>>,
       enrollments |-> Enrolled("C1", n1) \o Enrolled("C2", 1),
       tie_order |-> ties] :
      days \in {<<1, 2>>, <<2, 1>>},
      spw \in 1..MaxSessionsPerWeek,
      dur \in {90, 180},
      equip \in {{}, {"projector"}},
      other \in {None, Some("I1"), Some("I2"), Some("I3")},
      pref \in {<<{}, None, None>>, <<{2}, None, None>>, <<{1}, Some(570), Some(660)>>},
      avail \in {<<FullDay("I1", 1), FullDay("I1", 2)>>,
                 <<Window("I1", 1, 480, 570), Window("I1", 1, 570, 660),
                   Window("I1", 2, 480, 660)>>,
                 <<>>},
      r2equip \in {{}, {"projector"}},
      n1 \in 0..MaxEnrolled,
      ties \in {"generation", "reversed"} }

\* Settings sweep: one course and one room under every combination of a few
\* day lists, day windows and block lengths, valid or not.
SweepInputs ==
    { [settings |-> [days |-> days, start |-> start, end |-> end, block |-> block],
       courses |-> <<Course("C1", "I1", cs[1], cs[2], {})>>,
       instructors |-> <<Instructor("I1", {}, None, None)>>,
       availability |-> <<FullDay("I1", 1), FullDay("I1", 2)>>,
       rooms |-> <<Room("R1", "A", 1, {})>>,
       enrollments |-> <<>>,
       tie_order |-> ties] :
      days \in {<<1>>, <<1, 2>>, <<2, 1>>},
      start \in {480, 600},
      end \in {480, 600, 660, 700},
      block \in {-90, 0, 45, 90, 200},
      cs \in {<<0, 90>>, <<1, 90>>, <<1, 0>>},
      ties \in {"generation", "reversed"} }

Inputs == ScenarioInputs \cup SweepInputs

\* ---------------------------------------------------------------- actions

\* The uploads of the two-request specification: the settings sweep, and the
\* scenarios in which the days are listed in order, the second room has a
\* projector and the first instructor no preferred hours.
TwoRunInputs ==
    SweepInputs \cup
    {inp \in ScenarioInputs : /\ inp.settings.days = <<1, 2>>
                              /\ inp.rooms[2].equipment = {"projector"}
                              /\ inp.instructors[1].preferred_start = None}

\* The state after the upload inp is read and before any run starts.
InitWith(inp) ==
    /\ settings = inp.settings
    /\ courses = inp.courses
    /\ instructors = inp.instructors
    /\ availability = inp.availability
    /\ rooms = inp.rooms
    /\ enrollments = inp.enrollments
    /\ tie_order = inp.tie_order
    /\ pc = [r \in Runs |-> "start"]
    /\ timeslots = [r \in Runs |-> <<>>]
    /\ sessions = [r \in Runs |-> <<>>]
    /\ pos = [r \in Runs |-> 0]
    /\ assigned = [r \in Runs |-> <<>>]
    /\ room_busy = [r \in Runs |-> <<>>]
    /\ instr_busy = [r \in Runs |-> <<>>]
    /\ student_busy = [r \in Runs |-> <<>>]
    /\ chains_cache = [r \in Runs |-> <<>>]
    /\ response = [r \in Runs |-> NoResponse]
    /\ SCHEDULE_STORE = <<>>
    /\ clock = 0
    /\ stored_at = [r \in Runs |-> None]
    /\ downloaded = None

Init == \E inp \in Inputs : InitWith(inp)

InitTwo == \E inp \in TwoRunInputs : InitWith(inp)

\* The start of a schedule request: _gc_store(), then run_scheduler up to
\* the session loop (the settings, the slot catalog, the expanded sessions).
Setup(r) ==
    /\ pc[r] = "start"
    /\ SCHEDULE_STORE' = gc_store(SCHEDULE_STORE, clock)
    /\ UNCHANGED <<clock, stored_at, downloaded>>
    /\ IF TimeslotsOutcome(settings.block) = "returns"
       THEN /\ timeslots' = [timeslots EXCEPT ![r] =
                   build_timeslots(settings.days, settings.start, settings.end,
                                   settings.block)]
            /\ sessions' = [sessions EXCEPT ![r] = expand_course_sessions(courses)]
            /\ pc' = [pc EXCEPT ![r] = "loop"]
            /\ UNCHANGED response
       ELSE IF TimeslotsOutcome(settings.block) = "raises"
       THEN /\ pc' = [pc EXCEPT ![r] = "failed"]
            /\ response' = [response EXCEPT ![r] =
                   ErrorResponse(<<"date value out of range">>)]
            /\ UNCHANGED <<timeslots, sessions>>
       ELSE /\ pc' = [pc EXCEPT ![r] = "diverged"]
            /\ UNCHANGED <<timeslots, sessions, response>>
    /\ UNCHANGED <<inputs, pos, assigned, room_busy, instr_busy, student_busy,
                   chains_cache>>

\* One iteration of the loop over the sessions (lines 199-268).
ProcessSession(r) ==
    /\ pc[r] = "loop"
    /\ pos[r] < Len(sessions[r])
    /\ \E sess \in {sessions[r][pos[r] + 1]} :
          IF SessionRaises(r, sess) # None
          THEN /\ pc' = [pc EXCEPT ![r] = "failed"]
               /\ response' = [response EXCEPT ![r] =
                      ErrorResponse(SessionRaises(r, sess)[1])]
               /\ UNCHANGED <<pos, assigned, room_busy, instr_busy, student_busy,
                              chains_cache>>
          ELSE \E chains \in {SessionChains(r, sess)} :
               \E hit \in {TryChains(r, sess.course_id, sess.instructor_id,
                                     RequiredEquipment(sess.course_id), chains, 1)} :
                  /\ chains_cache' = [chains_cache EXCEPT ![r] =
                         (sess.duration_min :> chains_for(r, sess.duration_min)) @@ @]
                  /\ pos' = [pos EXCEPT ![r] = @ + 1]
                  /\ UNCHANGED <<pc, response>>
                  /\ IF hit # <<0, 0>>
                     THEN \E ch \in {chains[hit[1]]} : \E room \in {rooms[hit[2]]} :
                          /\ assigned' = [assigned EXCEPT ![r] =
                                 Append(@, PlacedAssignment(sess, room, ch))]
                          /\ room_busy' = BookRoom(r, room, ch)
                          /\ instr_busy' = [instr_busy EXCEPT ![r] =
                                 Book(@, <<sess.instructor_id, ch.day>>, ch.start, ch.end)]
                          /\ student_busy' = [student_busy EXCEPT ![r] =
                                 BookStudents(@, course_students(sess.course_id),
                                              ch.day, ch.start, ch.end, 1)]
                     ELSE /\ assigned' = [assigned EXCEPT ![r] =
                                 Append(@, UnplacedAssignment(sess))]
                          /\ UNCHANGED <<room_busy, instr_busy, student_busy>>
    /\ UNCHANGED <<inputs, timeslots, sessions>>
    /\ UNCHANGED <<SCHEDULE_STORE, clock, stored_at, downloaded>>

\* After the loop: the summary (lines 270-303), and the handler stores the
\* workbook under the token of the request and answers.  The workbook of a
\* run that returned is never empty, so the check of line 137 passes.
Summarize(r) ==
    /\ pc[r] = "loop"
    /\ pos[r] = Len(sessions[r])
    /\ IF SummaryRaises(assigned[r]) # None
       THEN /\ pc' = [pc EXCEPT ![r] = "failed"]
            /\ response' = [response EXCEPT ![r] =
                   ErrorResponse(SummaryRaises(assigned[r])[1])]
            /\ UNCHANGED <<SCHEDULE_STORE, stored_at>>
       ELSE \E res \in {Summary(assigned[r])} :
            /\ pc' = [pc EXCEPT ![r] = "done"]
            /\ response' = [response EXCEPT ![r] = OkResponse(res)]
            /\ SCHEDULE_STORE' = put_store(SCHEDULE_STORE, Token(r), res.schedule, clock)
            /\ stored_at' = [stored_at EXCEPT ![r] = Some(clock)]
    /\ UNCHANGED <<clock, downloaded>>
    /\ UNCHANGED <<inputs, timeslots, sessions, pos, assigned, room_busy, instr_busy,
                   student_busy, chains_cache>>

Step(r) == Setup(r) \/ ProcessSession(r) \/ Summarize(r)

\* One request.
Next == Step(1)

Spec == Init /\ [][Next]_vars

\* Two requests with the same upload, their steps interleaved.
NextTwo == \E r \in Runs : Step(r)

SpecTwo == InitTwo /\ [][NextTwo]_vars

\* time.time() moves on.
Tick ==
    /\ clock < MaxTicks * TickSeconds
    /\ clock' = clock + TickSeconds
    /\ UNCHANGED <<inputs, pc, timeslots, sessions, pos, assigned, room_busy,
                   instr_busy, student_busy, chains_cache, response,
                   SCHEDULE_STORE, stored_at, downloaded>>

\* A download request for a token.
Download(token) ==
    /\ downloaded' = Some([token |-> token, at |-> clock,
                           answer |-> download(SCHEDULE_STORE, token)])
    /\ UNCHANGED <<inputs, pc, timeslots, sessions, pos, assigned, room_busy,
                   instr_busy, student_busy, chains_cache, response,
                   SCHEDULE_STORE, clock, stored_at>>

\* The uploads of the store specification: one day of two 90-minute blocks
\* and one course, with one session or none, or a block length that makes
\* the run raise.
StoreInputs ==
    {inp \in SweepInputs : /\ inp.settings.days = <<1>>
                           /\ inp.settings.start = 480 /\ inp.settings.end = 660
                           /\ inp.settings.block \in {90, -90}
                           /\ inp.courses[1].session_duration_min = 90
                           /\ inp.tie_order = "generation"}

InitStore == \E inp \in StoreInputs : InitWith(inp)

\* Two schedule requests and any number of download requests, their steps
\* interleaved, while time passes.
NextStore ==
    \/ \E r \in Runs : Step(r)
    \/ Tick
    \/ \E r \in Runs : Download(Token(r))

SpecStore == InitStore /\ [][NextStore]_vars

\* ================================================================== claims

Max2(a, b) == IF a >= b THEN a ELSE b
Min2(a, b) == IF a <= b THEN a ELSE b

\* The students with an enrollment row for a course.
StudentsOf(cid) ==
    {enrollments[k].student_id : k \in {k \in DOMAIN enrollments : enrollments[k].course_id = cid}}

\* Two placed Assignments on the same day whose half-open intervals overlap.
Clash(a, b) ==
    /\ IsPlaced(a) /\ IsPlaced(b)
    /\ a.day = b.day
    /\ Max2(a.start[1], b.start[1]) < Min2(a.end[1], b.end[1])

\* C1: no double-booking.  In every state of the session loop and after it,
\* two distinct placed Assignments of a run that are on the same day with
\* overlapping intervals differ in room, differ in instructor, and their
\* courses have no enrolled student in common.
C1_NoDoubleBooking ==
    \A r \in Runs : \A i, j \in DOMAIN assigned[r] :
        (i # j /\ Clash(assigned[r][i], assigned[r][j]))
        => /\ assigned[r][i].room_id # assigned[r][j].room_id
           /\ assigned[r][i].instructor_id # assigned[r][j].instructor_id
           /\ StudentsOf(assigned[r][i].course_id)
                \cap StudentsOf(assigned[r][j].course_id) = {}

\* Two sessions were placed at overlapping times (in different rooms), and a
\* third placement of the run shares the instructor with one of them.
C1_Witness ==
    \E i, j, k \in DOMAIN assigned[1] :
        /\ i # j /\ Clash(assigned[1][i], assigned[1][j])
        /\ k # i /\ IsPlaced(assigned[1][k])
        /\ assigned[1][k].instructor_id = assigned[1][i].instructor_id

\* Number of sessions the first c courses expand to.
RECURSIVE SessionsUpTo(_)
SessionsUpTo(c) ==
    IF c = 0 THEN 0
    ELSE SessionsUpTo(c - 1) + Max2(courses[c].sessions_per_week, 0)

\* The course whose sessions include the i-th expanded session.
CourseOfSession(i) ==
    CHOOSE c \in DOMAIN courses : SessionsUpTo(c - 1) < i /\ i <= SessionsUpTo(c)

\* C2: every session yields exactly one Assignment.  The Assignment list of a
\* run that completes has one element per session (the sum of
\* sessions_per_week); its i-th element carries the course id, the 1-based
\* session index and the instructor id of the i-th expanded session; an
\* element without a day has no room, building, start or end and an empty
\* slot list, and an element with a day has them all.
C2_OneAssignmentPerSession ==
    \A r \in Runs :
        pc[r] = "done" =>
           /\ Len(assigned[r]) = SessionsUpTo(Len(courses))
           /\ Len(response[r].result[1].schedule) = SessionsUpTo(Len(courses))
           /\ \A i \in DOMAIN assigned[r] :
                 LET a == assigned[r][i]
                     c == CourseOfSession(i)
                 IN /\ a.course_id = courses[c].course_id
                    /\ a.session_index = i - SessionsUpTo(c - 1)
                    /\ a.instructor_id = courses[c].instructor_id
                    /\ IF a.day = None
                       THEN /\ a.room_id = None /\ a.building = None
                            /\ a.start = None /\ a.end = None
                            /\ a.slot_ids = <<>>
                       ELSE /\ a.room_id # None /\ a.building # None
                            /\ a.start # None /\ a.end # None
                            /\ a.slot_ids # <<>>

\* A completed run of three sessions, the second of them unplaced and the
\* third placed.
C2_Witness ==
    /\ pc[1] = "done"
    /\ Len(assigned[1]) = 3
    /\ ~IsPlaced(assigned[1][2])
    /\ IsPlaced(assigned[1][3])

\* The session the loop of run r processes next, when it has one and its
\* iteration raises nothing.
HasNext(r) ==
    /\ pc[r] = "loop"
    /\ pos[r] < Len(sessions[r])
    /\ SessionRaises(r, sessions[r][pos[r] + 1]) = None

NextSession(r) == sessions[r][pos[r] + 1]

\* Position of a day label in the configured DAYS list.
DayPosition(d) == CHOOSE p \in DOMAIN settings.days : settings.days[p] = d

\* C3: ties keep the generation order.  Of two chains of a session with
\* equal score, the one tried first is on an earlier day of the DAYS list
\* or, on the same day, starts earlier.  Stated for the case most favourable
\* to the claim: a day window with START_DAY before END_DAY, and a build
\* whose sort leaves equal scores in the order it found them.
C3_TiesInDayListOrder ==
    \A r \in Runs :
        (HasNext(r) /\ tie_order = "generation" /\ settings.start < settings.end) =>
            LET ranked == SessionChains(r, NextSession(r))
                row == InstructorRows(NextSession(r).instructor_id)[1]
            IN \A i, j \in DOMAIN ranked :
                  (i < j /\ ChainScore(ranked[i], row) = ChainScore(ranked[j], row))
                  => \/ DayPosition(ranked[i].day) < DayPosition(ranked[j].day)
                     \/ /\ ranked[i].day = ranked[j].day
                        /\ ranked[i].start < ranked[j].start

\* What the claims ask of a (chain, room) pair for a session, against the
\* calendars of run r as they stand.
WindowCovers(instr, ch) ==
    \E k \in DOMAIN availability :
        /\ availability[k].instructor_id = instr
        /\ availability[k].day = ch.day
        /\ availability[k].available_start <= ch.start
        /\ ch.end <= availability[k].available_end

EnrollmentRows(cid) ==
    Cardinality({k \in DOMAIN enrollments : enrollments[k].course_id = cid})

RoomSuits(cid, room) ==
    /\ \A tag \in RequiredEquipment(cid) : tag \in room.equipment
    /\ room.capacity >= EnrollmentRows(cid)

NoneBooked(cal, key, ch) ==
    \A k \in DOMAIN Busy(cal, key) :
        ~(Max2(ch.start, Busy(cal, key)[k][1]) < Min2(ch.end, Busy(cal, key)[k][2]))

Fits(r, sess, ch, room) ==
    /\ WindowCovers(sess.instructor_id, ch)
    /\ RoomSuits(sess.course_id, room)
    /\ NoneBooked(room_busy[r], <<room.room_id, ch.day>>, ch)
    /\ NoneBooked(instr_busy[r], <<sess.instructor_id, ch.day>>, ch)
    /\ \A sid \in StudentsOf(sess.course_id) :
           NoneBooked(student_busy[r], <<sid, ch.day>>, ch)

Commits(a, ch, room) ==
    /\ a.day = Some(ch.day) /\ a.start = Some(ch.start) /\ a.end = Some(ch.end)
    /\ a.slot_ids = ch.slot_ids
    /\ a.room_id = Some(room.room_id) /\ a.building = Some(room.building)

\* C4: greedy first-fit.  A step that processes a session appends a placed
\* Assignment exactly when some (chain, room) pair fits the calendars as they
\* stood before the step; the pair it commits fits, no fitting pair has a
\* chain of strictly higher score, and no earlier room row fits its chain.
C4_FirstFit ==
    [][\A r \in Runs :
          (HasNext(r) /\ pos'[r] = pos[r] + 1) =>
             LET sess == NextSession(r)
                 a == assigned'[r][pos'[r]]
                 row == InstructorRows(sess.instructor_id)[1]
                 cands == Range(chains_for(r, sess.duration_min))
             IN /\ IsPlaced(a) <=>
                      \E ch \in cands : \E j \in DOMAIN rooms : Fits(r, sess, ch, rooms[j])
                /\ IsPlaced(a) =>
                      \E ch \in cands : \E j \in DOMAIN rooms :
                         /\ Commits(a, ch, rooms[j])
                         /\ Fits(r, sess, ch, rooms[j])
                         /\ \A ch2 \in cands : \A j2 \in DOMAIN rooms :
                               Fits(r, sess, ch2, rooms[j2]) =>
                                  /\ ChainScore(ch2, row) <= ChainScore(ch, row)
                                  /\ ch2 = ch => j2 >= j]_vars

\* A session was placed in the second room, the first one not fitting, on a
\* chain that is not of the highest score.
C4_Witness ==
    \E j \in DOMAIN assigned[1] :
        /\ assigned[1][j].room_id = Some("R2")
        /\ \E ch \in Range(chains_cache[1][sessions[1][j].duration_min]) :
              ChainScore(ch, InstructorRows(sessions[1][j].instructor_id)[1])
              > ChainScore([day |-> assigned[1][j].day[1],
                            start |-> assigned[1][j].start[1],
                            end |-> assigned[1][j].end[1]],
                           InstructorRows(sessions[1][j].instructor_id)[1])

\* C5: availability is a hard constraint.  Every placed Assignment lies
\* inside one Availability window of its instructor for its day.
C5_InsideOneWindow ==
    \A r \in Runs : \A i \in DOMAIN assigned[r] :
        IsPlaced(assigned[r][i]) =>
            \E k \in DOMAIN availability :
                /\ availability[k].instructor_id = assigned[r][i].instructor_id
                /\ availability[k].day = assigned[r][i].day[1]
                /\ availability[k].available_start <= assigned[r][i].start[1]
                /\ assigned[r][i].end[1] <= availability[k].available_end

\* The instructor has two adjacent windows on day 1 that only jointly cover
\* the 180-minute chain of that day, and the session was placed on day 2.
C5_Witness ==
    /\ \E k \in DOMAIN availability :
          /\ availability[k].instructor_id = "I1" /\ availability[k].day = 1
          /\ availability[k].available_end = 570
    /\ \E i \in DOMAIN assigned[1] :
          /\ assigned[1][i].instructor_id = "I1"
          /\ assigned[1][i].day = Some(2)
          /\ assigned[1][i].start = Some(480) /\ assigned[1][i].end = Some(660)

\* Its consequence, stated on its own: an instructor without any
\* Availability row has every session unplaced.
C5_NoRowsAllUnplaced ==
    \A r \in Runs : \A i \in DOMAIN assigned[r] :
        (\A k \in DOMAIN availability :
            availability[k].instructor_id # assigned[r][i].instructor_id)
        => ~IsPlaced(assigned[r][i])

RoomRow(rid) == SelectSeq(rooms, LAMBDA row : row.room_id = rid)[1]

\* C6: equipment and capacity are hard constraints.  The room of every
\* placed Assignment has every equipment tag the course requires and a
\* capacity of at least the number of enrollment rows of the course.
C6_RoomSuitsCourse ==
    \A r \in Runs : \A i \in DOMAIN assigned[r] :
        IsPlaced(assigned[r][i]) =>
            LET room == RoomRow(assigned[r][i].room_id[1])
                cid == assigned[r][i].course_id
            IN /\ RequiredEquipment(cid) \subseteq room.equipment
               /\ room.capacity >= EnrollmentRows(cid)

\* A course that requires a projector and has two students was placed in the
\* second room, the first having no projector and a capacity of 1.
C6_Witness ==
    \E i \in DOMAIN assigned[1] :
        /\ RequiredEquipment(assigned[1][i].course_id) = {"projector"}
        /\ EnrollmentRows(assigned[1][i].course_id) = 2
        /\ assigned[1][i].room_id = Some("R2")

Finished(r) == pc[r] \in {"done", "failed"}

Mentions(msg, id) == \E k \in DOMAIN msg : msg[k] = id

\* The run failed in the iteration of a session whose instructor id has no
\* row in the instructors sheet.
FailedOnMissingInstructor(r) ==
    /\ pc[r] = "failed"
    /\ pos[r] < Len(sessions[r])
    /\ \/ NextSession(r).duration_min \in DOMAIN chains_cache[r]
       \/ ChainsRaises(timeslots[r], NextSession(r).duration_min) = None
    /\ Len(InstructorRows(NextSession(r).instructor_id)) = 0

\* C8: a structural inconsistency fails the run with a localized error.  A
\* run that reaches a session whose instructor id has no row ends in an
\* error answer, without a schedule, whose message names the missing id.
C8_MissingReferenceNamed ==
    \A r \in Runs :
        FailedOnMissingInstructor(r) =>
            /\ response[r].status = 400
            /\ response[r].result = None
            /\ Mentions(response[r].error[1], NextSession(r).instructor_id)

\* The part of C8 the code does meet: the session is not skipped and no
\* schedule is returned.
C8_MissingReferenceFails ==
    \A r \in Runs : \A k \in DOMAIN assigned[r] :
        Len(InstructorRows(assigned[r][k].instructor_id)) > 0

InvalidSettings ==
    \/ settings.block <= 0
    \/ settings.start >= settings.end
    \/ settings.block > settings.end - settings.start

\* C9: timeslot-generation inputs are validated.  With a block length that
\* is not positive, a day start that is not before the day end, or a block
\* longer than the day, a run builds no slots, assigns nothing and answers
\* no schedule.
C9_InvalidSettingsRejected ==
    \A r \in Runs :
        InvalidSettings =>
            /\ Len(timeslots[r]) = 0
            /\ Len(assigned[r]) = 0
            /\ response[r].status # 200

\* build_timeslots has returned in run r.
Built(r) == pc[r] # "start" /\ TimeslotsOutcome(settings.block) = "returns"

SlotsPerDay == (settings.end - settings.start) \div settings.block

\* C10: slot catalog shape.  For START_DAY < END_DAY and a block of at least
\* one minute, each day has floor((END_DAY - START_DAY) / block) slots, the
\* first at START_DAY, each ending where the next starts, none overlapping
\* another of its day, none ending after END_DAY; and the identifiers run
\* 1, 2, ... day by day in DAYS order and by ascending time within a day.
C10_CatalogShape ==
    \A r \in Runs :
        (Built(r) /\ settings.start < settings.end /\ settings.block >= 1) =>
            LET ts == timeslots[r]
                n == SlotsPerDay
                OfDay(p) == {i \in DOMAIN ts : ts[i].day = settings.days[p]}
            IN /\ Len(ts) = Len(settings.days) * n
               /\ \A p \in DOMAIN settings.days :
                     /\ Cardinality(OfDay(p)) = n
                     /\ OfDay(p) = ((p - 1) * n + 1)..(p * n)
                     /\ n > 0 => ts[(p - 1) * n + 1].start = settings.start
                     /\ \A i \in OfDay(p) :
                           (i + 1 \in OfDay(p)) => ts[i].end = ts[i + 1].start
                     /\ \A i, j \in OfDay(p) :
                           i # j => ~(Max2(ts[i].start, ts[j].start)
                                      < Min2(ts[i].end, ts[j].end))
               /\ \A i \in DOMAIN ts :
                     /\ ts[i].slot_id = i
                     /\ ts[i].start < ts[i].end
                     /\ ts[i].end - ts[i].start = settings.block
                     /\ ts[i].end <= settings.end

\* A catalog of two days of two 90-minute slots, the last 40 minutes of the
\* day (08:00-11:40) being dropped.
C10_Witness ==
    /\ Built(1)
    /\ settings.days = <<2, 1>> /\ settings.block = 90
    /\ settings.start = 480 /\ settings.end = 700
    /\ Len(timeslots[1]) = 4
    /\ timeslots[1][4].end = 660

\* The row of the slot catalog of run r with identifier id.
SlotOf(r, id) == CHOOSE s \in Range(timeslots[r]) : s.slot_id = id

\* C11: chain construction.  In a catalog of n blocks a day (START_DAY <
\* END_DAY), the chains built for a duration d >= 1 with k = ceil(d / block)
\* are, for each day, exactly max(0, n - k + 1) chains starting at different
\* slots; each has k slot identifiers of its day, each slot ends where the
\* next starts, and the chain starts with its first slot and ends with its
\* last.
C11_SlidingWindowChains ==
    \A r \in Runs : \A d \in DOMAIN chains_cache[r] :
        (Built(r) /\ settings.start < settings.end /\ d >= 1) =>
            LET chains == chains_cache[r][d]
                k == CeilDiv(d, settings.block)
                n(day) == Cardinality({i \in DOMAIN timeslots[r] :
                                          timeslots[r][i].day = day})
                OfDay(day) == {i \in DOMAIN chains : chains[i].day = day}
            IN /\ \A i \in DOMAIN chains : chains[i].day \in Range(settings.days)
               /\ \A day \in Range(settings.days) :
                     /\ Cardinality(OfDay(day)) = Max2(0, n(day) - k + 1)
                     /\ \A i, j \in OfDay(day) :
                           i # j => chains[i].slot_ids[1] # chains[j].slot_ids[1]
               /\ \A i \in DOMAIN chains :
                     LET ids == chains[i].slot_ids
                     IN /\ Len(ids) = k
                        /\ \A x \in 1..k : SlotOf(r, ids[x]).day = chains[i].day
                        /\ \A x \in 1..(k - 1) :
                              SlotOf(r, ids[x]).end = SlotOf(r, ids[x + 1]).start
                        /\ chains[i].start = SlotOf(r, ids[1]).start
                        /\ chains[i].end = SlotOf(r, ids[k]).end

\* Days of four 45-minute blocks and a 90-minute session: three overlapping
\* chains of two blocks a day.
C11_Witness ==
    /\ settings.start = 480 /\ settings.end = 660 /\ settings.block = 45
    /\ 90 \in DOMAIN chains_cache[1]
    /\ Cardinality({i \in DOMAIN chains_cache[1][90] :
                       chains_cache[1][90][i].day = 1}) = 3
    /\ \E i, j \in DOMAIN chains_cache[1][90] :
          /\ chains_cache[1][90][i].day = chains_cache[1][90][j].day
          /\ chains_cache[1][90][i].slot_ids[2] = chains_cache[1][90][j].slot_ids[1]

\* Twice the distance between the middle of a chain and the middle of the
\* day window.
OffCenter(ch) ==
    LET x == (ch.start + ch.end) - (settings.start + settings.end)
    IN IF x < 0 THEN -x ELSE x

\* Two chains get the same preferred-day and preferred-window bonus.
SameBonuses(a, b, row) ==
    LET ps == IF row.preferred_start = None THEN settings.start
              ELSE row.preferred_start[1]
        pe == IF row.preferred_end = None THEN settings.end
              ELSE row.preferred_end[1]
    IN /\ (a.day \in row.preferred_days) = (b.day \in row.preferred_days)
       /\ (a.start >= ps /\ a.end <= pe) = (b.start >= ps /\ b.end <= pe)

\* C12: centering bias of the chain score.  Of two chains of a session that
\* get the same preferred-day bonus and the same preferred-window bonus, the
\* one closer to the center of the day window has the strictly higher score
\* and is tried first.  Stated for a day window with START_DAY before
\* END_DAY.
C12_CenteredChainFirst ==
    \A r \in Runs :
        (HasNext(r) /\ settings.start < settings.end) =>
            LET ranked == SessionChains(r, NextSession(r))
                row == InstructorRows(NextSession(r).instructor_id)[1]
            IN \A i, j \in DOMAIN ranked :
                  (/\ SameBonuses(ranked[i], ranked[j], row)
                   /\ OffCenter(ranked[i]) < OffCenter(ranked[j]))
                  => /\ ChainScore(ranked[i], row) > ChainScore(ranked[j], row)
                     /\ i < j

\* The Assignments of run r that have a day.
PlacedRows(r) == {k \in DOMAIN assigned[r] : assigned[r][k].day # None}

\* C13: result summary.  A completed run answers a soft score of 0.1 for
\* each placed Assignment, a session count equal to the number of Assignments,
\* placed or not, which is the number of expanded sessions, and zero
\* hard-error and soft-detail counts however many sessions are unplaced.
C13_SummaryCounts ==
    \A r \in Runs :
        pc[r] = "done" =>
            LET res == response[r].result[1]
            IN /\ response[r].status = 200
               /\ res.soft_score_tenths = Cardinality(PlacedRows(r)) * SoftScoreTenths
               /\ res.counts.sessions = Len(assigned[r])
               /\ res.counts.sessions = Len(sessions[r])
               /\ res.counts.hard_errors = 0
               /\ res.counts.soft_details = 0

\* A completed run of three sessions, one placed and two unplaced.
C13_Witness ==
    /\ pc[1] = "done"
    /\ Len(assigned[1]) = 3
    /\ Cardinality(PlacedRows(1)) = 1
    /\ response[1].result[1].soft_score_tenths = 1
    /\ response[1].result[1].counts.sessions = 3

\* The intervals run r handles as <<start, end>>: its slots, the chains it
\* has built and what it has booked in its three calendars.
BookedIn(cal) == UNION {Range(cal[key]) : key \in DOMAIN cal}

IntervalsOf(r) ==
    {<<timeslots[r][i].start, timeslots[r][i].end>> : i \in DOMAIN timeslots[r]}
    \cup UNION {{<<chains_cache[r][d][i].start, chains_cache[r][d][i].end>> :
                    i \in DOMAIN chains_cache[r][d]} : d \in DOMAIN chains_cache[r]}
    \cup BookedIn(room_busy[r]) \cup BookedIn(instr_busy[r])
    \cup BookedIn(student_busy[r])

\* C14: the overlap predicate.  For any two intervals of a run, overlap is
\* true exactly when max(s1, s2) < min(e1, e2), gives the same answer with
\* the two intervals swapped, and is false when one interval ends where the
\* other starts; so a chain that only touches what a calendar holds is free
\* in it.
C14_OverlapPredicate ==
    \A r \in Runs :
        /\ \A a, b \in IntervalsOf(r) :
              /\ overlap(a[1], a[2], b[1], b[2]) <=> (Max2(a[1], b[1]) < Min2(a[2], b[2]))
              /\ overlap(a[1], a[2], b[1], b[2]) <=> overlap(b[1], b[2], a[1], a[2])
              /\ (a[2] = b[1] \/ b[2] = a[1]) => ~overlap(a[1], a[2], b[1], b[2])
        /\ \A key \in DOMAIN room_busy[r] : \A c \in IntervalsOf(r) :
              (\A k \in DOMAIN room_busy[r][key] :
                    \/ room_busy[r][key][k][2] = c[1]
                    \/ c[2] = room_busy[r][key][k][1])
              => free_in(room_busy[r][key], c[1], c[2])

\* Two sessions booked back to back in the same room on the same day.
C14_Witness ==
    \E key \in DOMAIN room_busy[1] :
        /\ Len(room_busy[1][key]) = 2
        /\ room_busy[1][key][1][2] = room_busy[1][key][2][1]
        /\ room_busy[1][key][1][1] < room_busy[1][key][1][2]

\* A run executed alone, as a function of the upload: the session loop of
\* lines 199-268 over calendars cals = [room, instr, student] that no other
\* run touches, from session k on; acc is the Assignment list so far.  The
\* loop stops at a session whose iteration raises.
AloneFree(cals, cid, instr, room, ch) ==
    /\ free_in(Busy(cals.room, <<room.room_id, ch.day>>), ch.start, ch.end)
    /\ free_in(Busy(cals.instr, <<instr, ch.day>>), ch.start, ch.end)
    /\ \A k \in DOMAIN course_students(cid) :
           free_in(Busy(cals.student, <<course_students(cid)[k], ch.day>>),
                   ch.start, ch.end)

RECURSIVE AloneTryRooms(_, _, _, _)
AloneTryRooms(cals, sess, ch, j) ==
    IF j > Len(rooms) THEN 0
    ELSE IF /\ room_ok(rooms[j], RequiredEquipment(sess.course_id))
            /\ rooms[j].capacity >= Len(course_students(sess.course_id))
            /\ AloneFree(cals, sess.course_id, sess.instructor_id, rooms[j], ch)
         THEN j
    ELSE AloneTryRooms(cals, sess, ch, j + 1)

\* The element of a one-element set.
Only(S) == CHOOSE v \in S : TRUE

RECURSIVE AloneTryChains(_, _, _, _)
AloneTryChains(cals, sess, chains, i) ==
    IF i > Len(chains) THEN <<0, 0>>
    ELSE IF ~instructor_available(sess.instructor_id, chains[i].day,
                                  chains[i].start, chains[i].end)
         THEN AloneTryChains(cals, sess, chains, i + 1)
    ELSE Only({IF j # 0 THEN <<i, j>> ELSE AloneTryChains(cals, sess, chains, i + 1) :
                 j \in {AloneTryRooms(cals, sess, chains[i], 1)}})

AloneCommit(cals, sess, room, ch) ==
    [room |-> Book(cals.room, <<room.room_id, ch.day>>, ch.start, ch.end),
     instr |-> Book(cals.instr, <<sess.instructor_id, ch.day>>, ch.start, ch.end),
     student |-> BookStudents(cals.student, course_students(sess.course_id),
                              ch.day, ch.start, ch.end, 1)]

RECURSIVE AloneLoop(_, _, _, _, _)
AloneLoop(ts, todo, k, cals, acc) ==
    IF k > Len(todo) THEN acc
    ELSE IF \/ ChainsRaises(ts, todo[k].duration_min) # None
            \/ Len(InstructorRows(todo[k].instructor_id)) = 0
         THEN acc
    ELSE Only({Only({
            IF hit = <<0, 0>>
            THEN AloneLoop(ts, todo, k + 1, cals, Append(acc, UnplacedAssignment(todo[k])))
            ELSE AloneLoop(ts, todo, k + 1,
                           AloneCommit(cals, todo[k], rooms[hit[2]], chains[hit[1]]),
                           Append(acc, PlacedAssignment(todo[k], rooms[hit[2]],
                                                        chains[hit[1]])))
            : hit \in {AloneTryChains(cals, todo[k], chains, 1)}})
         : chains \in {RankedChains(slots_matching_duration(ts, todo[k].duration_min),
                                    InstructorRows(todo[k].instructor_id)[1])}})

AloneAssigned ==
    Only({AloneLoop(ts, expand_course_sessions(courses), 1,
                    [room |-> <<>>, instr |-> <<>>, student |-> <<>>], <<>>) :
            ts \in {build_timeslots(settings.days, settings.start, settings.end,
                                    settings.block)}})

\* The intervals of the placed Assignments of run r that satisfy Sel, in
\* the order the run emitted them.
OwnBookings(r, Sel(_)) ==
    LET rows == SelectSeq(assigned[r], LAMBDA a : IsPlaced(a) /\ Sel(a))
    IN [k \in 1..Len(rows) |-> <<rows[k].start[1], rows[k].end[1]>>]

\* The calendars and the chain cache of run r hold what its own Assignments
\* and sessions put there, and nothing else.
OwnCalendarsOnly(r) ==
    /\ \A key \in DOMAIN room_busy[r] \cup
                   ({rooms[j].room_id : j \in DOMAIN rooms} \X Range(settings.days)) :
          Busy(room_busy[r], key) =
             OwnBookings(r, LAMBDA a : a.room_id = Some(key[1]) /\ a.day = Some(key[2]))
    /\ \A key \in DOMAIN instr_busy[r] \cup
                   ({instructors[j].instructor_id : j \in DOMAIN instructors}
                    \X Range(settings.days)) :
          Busy(instr_busy[r], key) =
             OwnBookings(r, LAMBDA a : a.instructor_id = key[1] /\ a.day = Some(key[2]))
    /\ \A key \in DOMAIN student_busy[r] \cup
                   ({enrollments[j].student_id : j \in DOMAIN enrollments}
                    \X Range(settings.days)) :
          Busy(student_busy[r], key) =
             OwnBookings(r, LAMBDA a : /\ key[1] \in StudentsOf(a.course_id)
                                       /\ a.day = Some(key[2]))
    /\ DOMAIN chains_cache[r] =
          {sessions[r][k].duration_min : k \in 1..Len(assigned[r])}
    /\ \A d \in DOMAIN chains_cache[r] :
          chains_cache[r][d] = slots_matching_duration(timeslots[r], d)

\* C15: independent runs do not interfere.  With the steps of two runs
\* interleaved in any way and no lock, the calendars and the chain cache of a
\* run hold only what the run itself booked and built, and the Assignment
\* sequence of a run that has ended is the one the run produces when it
\* executes alone.
C15_RunsDoNotInterfere ==
    /\ \A r \in Runs : OwnCalendarsOnly(r)
    /\ ((\E r \in Runs : Finished(r)) /\ TimeslotsOutcome(settings.block) = "returns")
       => \E alone \in {AloneAssigned} :
             \A r \in Runs : Finished(r) => assigned[r] = alone

\* The second run has ended with a placed session although the first run,
\* still in its loop, has booked a room, its instructor and a student.
C15_Witness ==
    /\ pc[1] = "loop" /\ pos[1] >= 1
    /\ DOMAIN room_busy[1] # {} /\ DOMAIN student_busy[1] # {}
    /\ pc[2] = "done"
    /\ Len(assigned[2]) >= 2
    /\ IsPlaced(assigned[2][1])
    /\ assigned[2][1].room_id = assigned[1][1].room_id
    /\ assigned[2][1].start = assigned[1][1].start
    /\ assigned[2][1].day = assigned[1][1].day

\* Sequence s is the beginning of sequence t.
IsPrefix(s, t) == Len(s) <= Len(t) /\ SubSeq(t, 1, Len(s)) = s

\* The keys of a calendar before or after a step, with every (id, day) pair
\* of the upload.
CalendarKeys(cal, cal2, ids) ==
    DOMAIN cal \cup DOMAIN cal2 \cup (ids \X Range(settings.days))

\* Between two states a calendar gets the interval iv appended to the
\* entries of the keys in hit and is otherwise the same.
AppendedTo(cal, cal2, ids, hit, iv) ==
    \A key \in CalendarKeys(cal, cal2, ids) :
        Busy(cal2, key) = IF key \in hit THEN Append(Busy(cal, key), iv)
                          ELSE Busy(cal, key)

\* C16: commits are permanent and the calendars append-only.  No step
\* removes or changes an Assignment already emitted or an interval already
\* in a calendar.  Processing a session that is placed appends the interval
\* <<start, end>> to the entries of (its room, day), (its instructor, day)
\* and (each student of its course, day) and to no other entry; processing
\* one that is not placed leaves the three calendars as they were.
C16_AppendOnly ==
    [][\A r \in Runs :
          /\ IsPrefix(assigned[r], assigned'[r])
          /\ \A key \in CalendarKeys(room_busy[r], room_busy'[r], {}) :
                IsPrefix(Busy(room_busy[r], key), Busy(room_busy'[r], key))
          /\ \A key \in CalendarKeys(instr_busy[r], instr_busy'[r], {}) :
                IsPrefix(Busy(instr_busy[r], key), Busy(instr_busy'[r], key))
          /\ \A key \in CalendarKeys(student_busy[r], student_busy'[r], {}) :
                IsPrefix(Busy(student_busy[r], key), Busy(student_busy'[r], key))
          /\ pos'[r] = pos[r] + 1 =>
                LET a == assigned'[r][pos'[r]]
                    iv == <<a.start[1], a.end[1]>>
                    RoomIds == {rooms[j].room_id : j \in DOMAIN rooms}
                    InstrIds == {courses[j].instructor_id : j \in DOMAIN courses}
                    StudentIds == {enrollments[j].student_id : j \in DOMAIN enrollments}
                IN /\ Len(assigned'[r]) = Len(assigned[r]) + 1
                   /\ a.course_id = NextSession(r).course_id
                   /\ a.session_index = NextSession(r).session_index
                   /\ IF IsPlaced(a)
                      THEN /\ AppendedTo(room_busy[r], room_busy'[r], RoomIds,
                                         {<<a.room_id[1], a.day[1]>>}, iv)
                           /\ AppendedTo(instr_busy[r], instr_busy'[r], InstrIds,
                                         {<<a.instructor_id, a.day[1]>>}, iv)
                           /\ AppendedTo(student_busy[r], student_busy'[r], StudentIds,
                                         StudentsOf(a.course_id) \X {a.day[1]}, iv)
                      ELSE /\ AppendedTo(room_busy[r], room_busy'[r], RoomIds, {}, <<>>)
                           /\ AppendedTo(instr_busy[r], instr_busy'[r], InstrIds, {}, <<>>)
                           /\ AppendedTo(student_busy[r], student_busy'[r], StudentIds,
                                         {}, <<>>)]_vars

\* Two placed sessions of a course with two students, in the calendars of
\* the room, the instructor and both students, followed by a session that
\* was not placed.
C16_Witness ==
    /\ Len(assigned[1]) = 3
    /\ IsPlaced(assigned[1][1]) /\ IsPlaced(assigned[1][2])
    /\ ~IsPlaced(assigned[1][3])
    /\ EnrollmentRows(assigned[1][2].course_id) = 2
    /\ \A k \in 1..2 :
          LET a == assigned[1][k]
              iv == <<a.start[1], a.end[1]>>
          IN /\ iv \in Range(Busy(room_busy[1], <<a.room_id[1], a.day[1]>>))
             /\ iv \in Range(Busy(instr_busy[1], <<a.instructor_id, a.day[1]>>))
             /\ \A sid \in 1..2 : iv \in Range(Busy(student_busy[1], <<sid, a.day[1]>>))

\* The chains run r has built, with the duration each was built for.
BuiltChains(r) ==
    UNION {{<<d, chains_cache[r][d][i]>> : i \in DOMAIN chains_cache[r][d]} :
             d \in DOMAIN chains_cache[r]}

\* The session of the k-th Assignment of run r.
SessionOf(r, k) == sessions[r][k]

\* C17 as amended: the span of a chain built for a duration d is the
\* smallest whole number of blocks that covers d (a multiple of the block
\* length, at least d and less than a block longer), so it is d exactly when
\* the block length divides d; the interval booked for a placed session has
\* that span.
C17_SpanIsWholeBlocks ==
    \A r \in Runs :
        /\ \A dc \in BuiltChains(r) :
              LET span == minutes_between(dc[2].start, dc[2].end)
              IN /\ span % settings.block = 0
                 /\ span >= dc[1]
                 /\ span - dc[1] < settings.block
                 /\ span = dc[2].duration_min
                 /\ span = dc[1] <=> dc[1] % settings.block = 0
        /\ \A k \in DOMAIN assigned[r] :
              IsPlaced(assigned[r][k]) =>
                 LET span == minutes_between(assigned[r][k].start[1], assigned[r][k].end[1])
                     d == SessionOf(r, k).duration_min
                 IN /\ span % settings.block = 0
                    /\ span >= d
                    /\ span - d < settings.block

\* A 90-minute session placed on a chain of one 200-minute block, and booked
\* for 200 minutes.
C17_Witness ==
    /\ settings.block = 200
    /\ Len(assigned[1]) = 1 /\ IsPlaced(assigned[1][1])
    /\ sessions[1][1].duration_min = 90
    /\ assigned[1][1].end[1] - assigned[1][1].start[1] = 200
    /\ Busy(room_busy[1], <<"R1", assigned[1][1].day[1]>>)
          = <<<<assigned[1][1].start[1], assigned[1][1].start[1] + 200>>>>

\* C17 as stated: every chain built for a duration d spans d minutes, and
\* the interval booked for a placed session is as long as the session, also
\* when the block length does not divide d.  Stated for valid settings.
C17_SpanIsDuration ==
    \A r \in Runs :
        ~InvalidSettings =>
            /\ \A dc \in BuiltChains(r) : dc[2].end - dc[2].start = dc[1]
            /\ \A k \in DOMAIN assigned[r] :
                  IsPlaced(assigned[r][k]) =>
                     assigned[r][k].end[1] - assigned[r][k].start[1]
                        = SessionOf(r, k).duration_min

\* C18: a run with no session to place completes normally.  With valid
\* settings and a course table that expands to zero sessions, a run that has
\* ended answers a result with an empty schedule, soft score 0, an empty
\* preview and counts.sessions = 0, and no error.
C18_ZeroSessionsCompletes ==
    \A r \in Runs :
        (/\ ~InvalidSettings
         /\ Len(expand_course_sessions(courses)) = 0
         /\ pc[r] \notin {"start", "loop"})
        => /\ pc[r] = "done"
           /\ response[r].status = 200
           /\ response[r].error = None
           /\ response[r].result # None
           /\ response[r].result[1].schedule = <<>>
           /\ response[r].result[1].soft_score_tenths = 0
           /\ response[r].result[1].preview = <<>>
           /\ response[r].result[1].counts.sessions = 0

\* A download request has just been answered, for a token whose entry the
\* schedule request r had stored before.
AnsweredFor(r) ==
    /\ downloaded' # downloaded
    /\ downloaded'[1].token = Token(r)
    /\ stored_at[r] # None

\* Seconds between the storing of the entry of request r and the download
\* just answered.
AgeAtDownload(r) == downloaded'[1].at - stored_at[r][1]

\* C19: stored results expire after 12 hours.  However schedule requests,
\* download requests and the passing of time interleave, a download for a
\* token whose entry was stored more than 12 hours earlier is answered 404
\* "Invalid or expired token" and not the stored bytes, and a download for a
\* token stored less than 12 hours earlier is answered the bytes stored for
\* it.
C19_ExpiredTokenRejected ==
    [][\A r \in Runs :
          AnsweredFor(r) =>
             /\ AgeAtDownload(r) > ExpirySeconds =>
                   /\ downloaded'[1].answer.status = 404
                   /\ downloaded'[1].answer.error = Some(<<"Invalid or expired token">>)
                   /\ downloaded'[1].answer.body = None
             /\ AgeAtDownload(r) < ExpirySeconds =>
                   /\ downloaded'[1].answer.status = 200
                   /\ downloaded'[1].answer.body = Some(response[r].result[1].schedule)]_vars

\* The part of C19 the code does meet: a token stored no more than 12 hours
\* earlier is answered the bytes stored for it, and an entry older than that
\* is gone once a later schedule request has started.
C19_FreshTokenServed ==
    [][\A r \in Runs :
          /\ AnsweredFor(r) /\ AgeAtDownload(r) <= ExpirySeconds =>
                /\ downloaded'[1].answer.status = 200
                /\ downloaded'[1].answer.body = Some(response[r].result[1].schedule)
          /\ \A q \in Runs :
                (/\ pc[q] = "start" /\ pc'[q] # "start"
                 /\ stored_at[r] # None
                 /\ clock - stored_at[r][1] > ExpirySeconds)
                => Token(r) \notin DOMAIN SCHEDULE_STORE']_vars

====
